---- MODULE Spec2Model ----
(***************************************************************************)
(* Batched dense linear algebra kernels of ATen                            *)
(* (aten/src/ATen/native/BatchLinearAlgebraKernel.cpp), LAPACK build.      *)
(*                                                                         *)
(* The LAPACK primitives are external: the model draws what they return    *)
(* (status, optimal-size hint) from small sets and records every call.     *)
(* A size hint is a scalar_t; it is kept in halves (re2 = 2 * real part,   *)
(* im2 = 2 * imaginary part) so that non-integral hints exist.             *)
(***************************************************************************)
EXTENDS Integers, Sequences, FiniteSets, TLC

\* Bounds of the model
MaxBatch == 2      \* largest batch size of a call
MaxDim == 2        \* largest matrix dimension of a driver call
MaxHint2 == 4      \* largest size hint returned by a query, in halves
MaxN == 2          \* largest matrix of the symmetrization pass, every content
MaxNPar == 4       \* largest matrix of the symmetrization pass run by workers
MaxData == 2       \* largest data.numel() of a segment reduction
MaxSegments == 3   \* largest lengths.numel() of a segment reduction
IntBits == 3       \* width the model gives int64_t

VARIABLES
  op,           \* the kernel entry point that was called ("none" before the call)
  pc,           \* position of the call: idle, query, alloc, loop, check, done, raised
  debug,        \* build flag: TORCH_INTERNAL_ASSERT_DEBUG_ONLY is compiled in
  is_complex,   \* scalar_t is a complex type
  batch_size,   \* batchCount(input)
  m, n, k,      \* matrix rows / columns (or order) / number of reflectors
  matinfo,      \* matinfo[j]: the status the primitive returns for matrix j
  i,            \* loop index of the batch loop
  infos,        \* the caller's status vector (slot MaxBatch lies past every batch)
  writes,       \* writes[s]: number of stores made to infos[s] during the call
  info,         \* the driver's local 'int info' (apply_eig, apply_geqrf, apply_orgqr)
  kinfo,        \* eig_kernel_impl's local 'int64_t info'
  kinfo_set,    \* kinfo has been assigned through info_ptr
  nquery,       \* number of size-query calls (work size -1) made
  qinfo,        \* status reported by the size-query call
  work_query,   \* hint the query stored in the scalar_t output slot
  iwork_query,  \* integer hint of lapackSyevd
  rwork_query,  \* value_t hint of lapackSyevd, in halves
  nalloc,       \* number of allocations of the 'work' tensor
  lwork, liwork, lrwork,  \* workspace sizes handed to the execute calls
  execs,        \* the execute calls made so far, in order
  data,         \* data[j]: the routines that have overwritten matrix j in place
  \* apply_reflect_conj_tri_single
  tself,        \* the matrix 'self', element p at offset p
  tn, tstride, tupper,   \* its arguments n, stride, upper
  torig,        \* the matrix at the time of the call
  tfirst,       \* the matrix after the first application
  tpass,        \* number of applications completed
  chunk,        \* chunk[w]: the rows [start, end) at::parallel_for gave worker w
  wi, wj,       \* wi[w], wj[w]: the loop variables i and j of worker w
  wtmp,         \* wtmp[w]: the element worker w has read and not yet stored
  wph,          \* wph[w]: "read", "write" or "done"
  readers, writers,  \* per element, the workers that have read / written it
  \* _segment_reduce_cpu_kernel
  spc,          \* "idle", "check", "reduce", "done", "raised" or "out_of_bounds"
  sdata,        \* the elements of 'data'
  slengths,     \* the elements of 'lengths'
  sunsafe,      \* the argument 'unsafe'
  ssum,         \* the local 'sum' of the length check
  si, sj, sk,   \* the loop variables i, j and the read index k
  sreduction,   \* the local 'reduction'
  soutput,      \* the output slots stored so far, in order
  sreads        \* the indices of 'data' read so far, in order

dvars == <<op, pc, debug, is_complex, batch_size, m, n, k, matinfo, i, infos,
           writes, info, kinfo, kinfo_set, nquery, qinfo, work_query,
           iwork_query, rwork_query, nalloc, lwork, liwork, lrwork, execs, data>>

tvars == <<tself, tn, tstride, tupper, torig, tfirst, tpass, chunk, wi, wj, wtmp,
           wph, readers, writers>>

svars == <<spc, sdata, slengths, sunsafe, ssum, si, sj, sk, sreduction, soutput,
           sreads>>

vars == <<dvars, tvars, svars>>

Status == {-1, 0, 1}
\* what a size query can report: success or an illegal argument
QueryStatus == {-1, 0}
\* hints a query can return; the hint of a complex type has an imaginary part
Hints(c) == [re2 : (0 - 1)..MaxHint2, im2 : IF c THEN {3} ELSE {0}]
Slots == 0..MaxBatch

\* std::max<int>
StdMax(a, b) == IF a < b THEN b ELSE a

\* conversion of a floating value (given in halves) to int: truncation toward zero
ToInt(x2) == IF x2 >= 0 THEN x2 \div 2 ELSE 0 - ((0 - x2) \div 2)

\* faulty variant: the imaginary component is taken
imag_impl(h) == h.im2

\* real_impl<scalar_t, value_t>: the real component of a scalar_t
real_impl(h) == h.re2

\* lwork = std::max<int>(1, real_impl(wkopt))
LworkOf(h) == StdMax(1, ToInt(real_impl(h)))

\* lwork of apply_geqrf: std::max<int>(std::max<int>(1, n), real_impl(wkopt))
GeqrfLworkOf(nn, h) == StdMax(StdMax(1, nn), ToInt(real_impl(h)))

\* the batch loop continues while the index is below batch_size
LoopPc(next, b) == IF next < b THEN "loop" ELSE "done"

\* one execute call: matrix index, workspace sizes, workspace id, returned status
Exec(j, st) == [i |-> j, lwork |-> lwork, liwork |-> liwork, lrwork |-> lrwork,
                ws |-> nalloc, info |-> st]

Touch(d, j, what) == [d EXCEPT ![j] = Append(@, what)]

Store(f, s, v) == [f EXCEPT ![s] = v]
Count(w, s) == [w EXCEPT ![s] = @ + 1]

DriverInit ==
  /\ op = "none" /\ pc = "idle"
  /\ debug \in BOOLEAN
  /\ is_complex = FALSE /\ batch_size = 0 /\ m = 0 /\ n = 0 /\ k = 0
  /\ matinfo = <<>>
  /\ i = 0
  /\ infos = [s \in Slots |-> 0]
  /\ writes = [s \in Slots |-> 0]
  /\ info = 0 /\ kinfo = 0 /\ kinfo_set = FALSE
  /\ nquery = 0 /\ qinfo = 0
  /\ work_query = [re2 |-> 0, im2 |-> 0] /\ iwork_query = 0 /\ rwork_query = 0
  /\ nalloc = 0 /\ lwork = 0 /\ liwork = 0 /\ lrwork = 0
  /\ execs = <<>>
  /\ data = [j \in 0..(MaxBatch - 1) |-> <<>>]

\* the symmetrization pass is not running
\* std::numeric_limits<scalar_t>::lowest(), below every element of 'data'
lowest == [nan |-> FALSE, v |-> 0 - 1]

\* no segment reduction under way
SegIdle ==
  /\ spc = "idle" /\ sdata = <<>> /\ slengths = <<>> /\ sunsafe = FALSE
  /\ ssum = 0 /\ si = 0 /\ sj = 0 /\ sk = 0 /\ sreduction = lowest
  /\ soutput = <<>> /\ sreads = <<>>

TriIdle ==
  /\ tself = <<>> /\ tn = 0 /\ tstride = 1 /\ tupper = FALSE
  /\ torig = <<>> /\ tfirst = <<>> /\ tpass = 0
  /\ chunk = <<>> /\ wi = <<>> /\ wj = <<>> /\ wtmp = <<>> /\ wph = <<>>
  /\ readers = <<>> /\ writers = <<>>

\* what a call leaves alone when it is entered
Enter(o, b, c, mm, nn, kk, mi, next) ==
  /\ pc = "idle"
  /\ op' = o /\ batch_size' = b /\ is_complex' = c
  /\ m' = mm /\ n' = nn /\ k' = kk /\ matinfo' = mi
  /\ pc' = next
  /\ UNCHANGED <<debug, i, infos, writes, info, kinfo, kinfo_set, nquery, qinfo,
                 work_query, iwork_query, rwork_query, nalloc, lwork, liwork,
                 lrwork, execs, data, tvars, svars>>

MatInfos(b) == [0..(b - 1) -> Status]

----
\* cholesky_inverse_kernel_impl / apply_cholesky_inverse

cholesky_inverse_kernel_impl ==
  /\ pc = "idle"
  /\ \E b \in 0..MaxBatch, c \in BOOLEAN, nn \in 0..MaxDim :
       \E mi \in MatInfos(b) :
         Enter("cholesky_inverse", b, c, nn, nn, 0, mi, LoopPc(0, b))

\* input_working_ptr = &input_data[i * input_matrix_stride]: offset of matrix j
working_ptr(j, stride) == j * stride

\* info_working_ptr = &infos_data[i]
cholesky_info_working_ptr(j) == j

apply_cholesky_inverse_loop ==
  /\ op = "cholesky_inverse" /\ pc = "loop" /\ i < batch_size
  /\ infos' = Store(infos, cholesky_info_working_ptr(i), matinfo[i])
  /\ writes' = Count(writes, cholesky_info_working_ptr(i))
  /\ execs' = Append(execs, Exec(i, matinfo[i]))
  /\ data' = Touch(Touch(data, i, "potri"), i, "reflect_conj_tri")
  /\ i' = i + 1
  /\ pc' = LoopPc(i + 1, batch_size)
  /\ UNCHANGED <<op, debug, is_complex, batch_size, m, n, k, matinfo, info, kinfo,
                 kinfo_set, nquery, qinfo, work_query, iwork_query, rwork_query,
                 nalloc, lwork, liwork, lrwork, tvars, svars>>

----
\* eig_kernel_impl / apply_eig: one n-by-n matrix, status through info_ptr

\* singleCheckErrors(info, name): raises when the status is not zero
singleCheckErrors(st) == st # 0

eig_kernel_impl ==
  /\ pc = "idle"
  /\ \E c \in BOOLEAN, nn \in 0..MaxDim, st \in Status, garbage \in Status :
       /\ op' = "eig" /\ batch_size' = 1 /\ is_complex' = c
       /\ m' = nn /\ n' = nn /\ k' = 0
       /\ matinfo' = [j \in {0} |-> st]
       /\ kinfo' = garbage            \* 'int64_t info;' is not initialized
       /\ pc' = IF nn > 0 THEN "query" ELSE "check"
  /\ UNCHANGED <<debug, i, infos, writes, info, kinfo_set, nquery, qinfo, work_query,
                 iwork_query, rwork_query, nalloc, lwork, liwork, lrwork, execs, data, tvars, svars>>

apply_eig_query ==
  /\ op = "eig" /\ pc = "query"
  /\ \E h \in Hints(is_complex), st \in QueryStatus :
       /\ work_query' = h
       /\ info' = st
       /\ qinfo' = st
  /\ nquery' = nquery + 1
  /\ pc' = "alloc"
  /\ UNCHANGED <<op, debug, is_complex, batch_size, m, n, k, matinfo, i, infos, writes,
                 kinfo, kinfo_set, iwork_query, rwork_query, nalloc, lwork, liwork,
                 lrwork, execs, data, tvars, svars>>

apply_eig_alloc ==
  /\ op = "eig" /\ pc = "alloc"
  /\ lwork' = LworkOf(work_query)
  /\ nalloc' = nalloc + 1
  /\ pc' = "exec"
  /\ UNCHANGED <<op, debug, is_complex, batch_size, m, n, k, matinfo, i, infos, writes,
                 info, kinfo, kinfo_set, nquery, qinfo, work_query, iwork_query,
                 rwork_query, liwork, lrwork, execs, data, tvars, svars>>

apply_eig_exec ==
  /\ op = "eig" /\ pc = "exec"
  /\ info' = matinfo[0]
  /\ execs' = Append(execs, Exec(0, matinfo[0]))
  /\ data' = Touch(data, 0, "geev")
  /\ kinfo' = matinfo[0]              \* *info_ptr = info
  /\ kinfo_set' = TRUE
  /\ pc' = "check"
  /\ UNCHANGED <<op, debug, is_complex, batch_size, m, n, k, matinfo, i, infos, writes,
                 nquery, qinfo, work_query, iwork_query, rwork_query, nalloc, lwork,
                 liwork, lrwork, tvars, svars>>

eig_kernel_check ==
  /\ op = "eig" /\ pc = "check"
  /\ pc' = IF singleCheckErrors(kinfo) THEN "raised" ELSE "done"
  /\ UNCHANGED <<op, debug, is_complex, batch_size, m, n, k, matinfo, i, infos, writes,
                 info, kinfo, kinfo_set, nquery, qinfo, work_query, iwork_query,
                 rwork_query, nalloc, lwork, liwork, lrwork, execs, data, tvars, svars>>

----
\* linalg_eig_kernel / apply_linalg_eig

linalg_eig_kernel ==
  /\ pc = "idle"
  /\ \E b \in 0..MaxBatch, c \in BOOLEAN, nn \in 0..MaxDim :
       \E mi \in MatInfos(b) :
         Enter("linalg_eig", b, c, nn, nn, 0, mi, "query")

\* the query call is handed &infos_data[0] as its status slot
linalg_eig_query_info_ptr == 0

apply_linalg_eig_query ==
  /\ op = "linalg_eig" /\ pc = "query"
  /\ \E h \in Hints(is_complex), st \in QueryStatus :
       /\ work_query' = h
       /\ infos' = Store(infos, linalg_eig_query_info_ptr, st)
       /\ qinfo' = st
  /\ writes' = Count(writes, linalg_eig_query_info_ptr)
  /\ nquery' = nquery + 1
  /\ pc' = "alloc"
  /\ UNCHANGED <<op, debug, is_complex, batch_size, m, n, k, matinfo, i, info, kinfo,
                 kinfo_set, iwork_query, rwork_query, nalloc, lwork, liwork, lrwork,
                 execs, data, tvars, svars>>

apply_linalg_eig_alloc ==
  /\ op = "linalg_eig" /\ pc = "alloc"
  /\ lwork' = LworkOf(work_query)
  /\ nalloc' = nalloc + 1
  /\ pc' = LoopPc(0, batch_size)
  /\ UNCHANGED <<op, debug, is_complex, batch_size, m, n, k, matinfo, i, infos, writes,
                 info, kinfo, kinfo_set, nquery, qinfo, work_query, iwork_query,
                 rwork_query, liwork, lrwork, execs, data, tvars, svars>>

\* faulty variant: every iteration is handed the first slot
linalg_eig_info_first_slot(j) == 0

\* info_working_ptr = &infos_data[i]
linalg_eig_info_working_ptr(j) == j

apply_linalg_eig_loop ==
  /\ op = "linalg_eig" /\ pc = "loop" /\ i < batch_size
  /\ infos' = Store(infos, linalg_eig_info_working_ptr(i), matinfo[i])
  /\ writes' = Count(writes, linalg_eig_info_working_ptr(i))
  /\ execs' = Append(execs, Exec(i, matinfo[i]))
  /\ data' = Touch(data, i, "geev")
  /\ i' = i + 1
  /\ pc' = LoopPc(i + 1, batch_size)
  /\ UNCHANGED <<op, debug, is_complex, batch_size, m, n, k, matinfo, info, kinfo,
                 kinfo_set, nquery, qinfo, work_query, iwork_query, rwork_query,
                 nalloc, lwork, liwork, lrwork, tvars, svars>>

----
\* linalg_eigh_kernel / apply_lapack_eigh

linalg_eigh_kernel ==
  /\ pc = "idle"
  /\ \E b \in 0..MaxBatch, c \in BOOLEAN, nn \in 0..MaxDim :
       \E mi \in MatInfos(b) :
         Enter("eigh", b, c, nn, nn, 0, mi, "query")

\* the query call is handed infos_data, that is slot 0, as its status slot
eigh_query_info_ptr == 0

apply_lapack_eigh_query ==
  /\ op = "eigh" /\ pc = "query"
  /\ lwork' = 0 - 1 /\ lrwork' = 0 - 1 /\ liwork' = 0 - 1
  /\ \E h \in Hints(is_complex), iq \in {0, 3}, st \in QueryStatus :
       \E rq \in IF is_complex THEN {0 - 1, MaxHint2} ELSE {0} :
         /\ work_query' = h
         /\ iwork_query' = iq
         /\ rwork_query' = rq
         /\ infos' = Store(infos, eigh_query_info_ptr, st)
         /\ qinfo' = st
  /\ writes' = Count(writes, eigh_query_info_ptr)
  /\ nquery' = nquery + 1
  /\ pc' = "alloc"
  /\ UNCHANGED <<op, debug, is_complex, batch_size, m, n, k, matinfo, i, info, kinfo,
                 kinfo_set, nalloc, execs, data, tvars, svars>>

apply_lapack_eigh_alloc ==
  /\ op = "eigh" /\ pc = "alloc"
  /\ lwork' = LworkOf(work_query)
  /\ liwork' = StdMax(1, iwork_query)
  /\ lrwork' = IF is_complex THEN StdMax(1, ToInt(rwork_query)) ELSE lrwork
  /\ nalloc' = nalloc + 1
  /\ pc' = LoopPc(0, batch_size)
  /\ UNCHANGED <<op, debug, is_complex, batch_size, m, n, k, matinfo, i, infos, writes,
                 info, kinfo, kinfo_set, nquery, qinfo, work_query, iwork_query,
                 rwork_query, execs, data, tvars, svars>>

\* info_working_ptr = &infos_data[i]
eigh_info_working_ptr(j) == j

\* faulty variant: the failure of a matrix is raised instead of returned
EarlyExitRaises(st, next, b) == IF st # 0 THEN "raised" ELSE LoopPc(next, b)

\* faulty variant: the loop goes on after a failure
NoEarlyExit(st, next, b) == LoopPc(next, b)

\* 'if (*info_working_ptr != 0) return;' at the end of an iteration
EarlyExitPc(st, next, b) == IF st # 0 THEN "done" ELSE LoopPc(next, b)

apply_lapack_eigh_loop ==
  /\ op = "eigh" /\ pc = "loop" /\ i < batch_size
  /\ infos' = Store(infos, eigh_info_working_ptr(i), matinfo[i])
  /\ writes' = Count(writes, eigh_info_working_ptr(i))
  /\ execs' = Append(execs, Exec(i, matinfo[i]))
  /\ data' = Touch(data, i, "syevd")
  /\ i' = i + 1
  /\ pc' = EarlyExitPc(infos'[eigh_info_working_ptr(i)], i + 1, batch_size)
  /\ UNCHANGED <<op, debug, is_complex, batch_size, m, n, k, matinfo, info, kinfo,
                 kinfo_set, nquery, qinfo, work_query, iwork_query, rwork_query,
                 nalloc, lwork, liwork, lrwork, tvars, svars>>

----
\* geqrf_kernel / apply_geqrf

geqrf_kernel ==
  /\ pc = "idle"
  /\ \E b \in 0..MaxBatch, c \in BOOLEAN, mm \in 0..MaxDim, nn \in 0..MaxDim :
       \E mi \in MatInfos(b) :
         Enter("geqrf", b, c, mm, nn, 0, mi, "query")

\* TORCH_INTERNAL_ASSERT_DEBUG_ONLY(info == 0): checked in debug builds only
DebugAssertFails(st) == debug /\ st # 0

apply_geqrf_query ==
  /\ op = "geqrf" /\ pc = "query"
  /\ lwork' = 0 - 1
  /\ \E h \in Hints(is_complex), st \in QueryStatus :
       /\ work_query' = h
       /\ info' = st
       /\ qinfo' = st
       /\ pc' = IF DebugAssertFails(st) THEN "raised" ELSE "alloc"
  /\ nquery' = nquery + 1
  /\ UNCHANGED <<op, debug, is_complex, batch_size, m, n, k, matinfo, i, infos, writes,
                 kinfo, kinfo_set, iwork_query, rwork_query, nalloc, liwork, lrwork,
                 execs, data, tvars, svars>>

apply_geqrf_alloc ==
  /\ op = "geqrf" /\ pc = "alloc"
  /\ lwork' = GeqrfLworkOf(n, work_query)
  /\ nalloc' = nalloc + 1
  /\ pc' = LoopPc(0, batch_size)
  /\ UNCHANGED <<op, debug, is_complex, batch_size, m, n, k, matinfo, i, infos, writes,
                 info, kinfo, kinfo_set, nquery, qinfo, work_query, iwork_query,
                 rwork_query, liwork, lrwork, execs, data, tvars, svars>>

apply_geqrf_loop ==
  /\ op = "geqrf" /\ pc = "loop" /\ i < batch_size
  /\ info' = matinfo[i]
  /\ execs' = Append(execs, Exec(i, matinfo[i]))
  /\ data' = Touch(data, i, "geqrf")
  /\ i' = i + 1
  /\ pc' = IF DebugAssertFails(matinfo[i]) THEN "raised" ELSE LoopPc(i + 1, batch_size)
  /\ UNCHANGED <<op, debug, is_complex, batch_size, m, n, k, matinfo, infos, writes,
                 kinfo, kinfo_set, nquery, qinfo, work_query, iwork_query, rwork_query,
                 nalloc, lwork, liwork, lrwork, tvars, svars>>

----
\* orgqr_kernel_impl / apply_orgqr

\* LAPACK's requirement, asserted by TORCH_INTERNAL_ASSERT: m >= n_columns >= k
orgqr_requirement(mm, nn, kk) == mm >= nn /\ nn >= kk

\* faulty variant: only the batch and the rows are looked at
numel_without_columns(b, mm, nn) == b * mm

\* self.numel() of a batch of b matrices with mm rows and nn columns
numel(b, mm, nn) == b * mm * nn

\* 'if (self.numel() == 0) return;' comes before everything else
orgqr_kernel_impl ==
  /\ pc = "idle"
  /\ \E b \in 0..MaxBatch, c \in BOOLEAN, mm \in 0..MaxDim, nn \in 0..MaxDim, kk \in 0..MaxDim :
       \E mi \in MatInfos(b) :
         /\ orgqr_requirement(mm, nn, kk)
         /\ Enter("orgqr", b, c, mm, nn, kk, mi,
                  IF numel(b, mm, nn) = 0 THEN "done" ELSE "query")

apply_orgqr_query ==
  /\ op = "orgqr" /\ pc = "query"
  /\ lwork' = 0 - 1
  /\ \E h \in Hints(is_complex), st \in QueryStatus :
       /\ work_query' = h
       /\ info' = st
       /\ qinfo' = st
       /\ pc' = IF DebugAssertFails(st) THEN "raised" ELSE "alloc"
  /\ nquery' = nquery + 1
  /\ UNCHANGED <<op, debug, is_complex, batch_size, m, n, k, matinfo, i, infos, writes,
                 kinfo, kinfo_set, iwork_query, rwork_query, nalloc, liwork, lrwork,
                 execs, data, tvars, svars>>

apply_orgqr_alloc ==
  /\ op = "orgqr" /\ pc = "alloc"
  /\ lwork' = LworkOf(work_query)
  /\ nalloc' = nalloc + 1
  /\ pc' = LoopPc(0, batch_size)
  /\ UNCHANGED <<op, debug, is_complex, batch_size, m, n, k, matinfo, i, infos, writes,
                 info, kinfo, kinfo_set, nquery, qinfo, work_query, iwork_query,
                 rwork_query, liwork, lrwork, execs, data, tvars, svars>>

\* faulty variant: the workspace is sized and allocated again in every iteration
apply_orgqr_loop_resizing ==
  /\ op = "orgqr" /\ pc = "loop" /\ i < batch_size
  /\ info' = matinfo[i]
  /\ nquery' = nquery + 1
  /\ nalloc' = nalloc + 1
  /\ execs' = Append(execs, [Exec(i, matinfo[i]) EXCEPT !.ws = nalloc + 1])
  /\ data' = Touch(data, i, "orgqr")
  /\ i' = i + 1
  /\ pc' = IF DebugAssertFails(matinfo[i]) THEN "raised" ELSE LoopPc(i + 1, batch_size)
  /\ UNCHANGED <<op, debug, is_complex, batch_size, m, n, k, matinfo, infos, writes,
                 kinfo, kinfo_set, qinfo, work_query, iwork_query, rwork_query,
                 lwork, liwork, lrwork, tvars, svars>>

apply_orgqr_loop ==
  /\ op = "orgqr" /\ pc = "loop" /\ i < batch_size
  /\ info' = matinfo[i]
  /\ execs' = Append(execs, Exec(i, matinfo[i]))
  /\ data' = Touch(data, i, "orgqr")
  /\ i' = i + 1
  /\ pc' = IF DebugAssertFails(matinfo[i]) THEN "raised" ELSE LoopPc(i + 1, batch_size)
  /\ UNCHANGED <<op, debug, is_complex, batch_size, m, n, k, matinfo, infos, writes,
                 kinfo, kinfo_set, nquery, qinfo, work_query, iwork_query, rwork_query,
                 nalloc, lwork, liwork, lrwork, tvars, svars>>

----
\* triangular_solve_kernel / apply_triangular_solve ('B' is overwritten in place)

triangular_solve_kernel ==
  /\ pc = "idle"
  /\ \E b \in 0..MaxBatch, c \in BOOLEAN, nn \in 0..MaxDim :
       \E mi \in MatInfos(b) :
         Enter("triangular_solve", b, c, nn, nn, 0, mi, LoopPc(0, b))

\* faulty variant: the slot after the one of the matrix
triangular_solve_info_next_slot(j) == IF j + 1 < batch_size THEN j + 1 ELSE j

\* info_working_ptr = &infos_data[i]
triangular_solve_info_working_ptr(j) == j

apply_triangular_solve_loop ==
  /\ op = "triangular_solve" /\ pc = "loop" /\ i < batch_size
  /\ infos' = Store(infos, triangular_solve_info_working_ptr(i), matinfo[i])
  /\ writes' = Count(writes, triangular_solve_info_working_ptr(i))
  /\ execs' = Append(execs, Exec(i, matinfo[i]))
  /\ data' = Touch(data, i, "trtrs")
  /\ i' = i + 1
  /\ pc' = EarlyExitPc(infos'[triangular_solve_info_working_ptr(i)], i + 1, batch_size)
  /\ UNCHANGED <<op, debug, is_complex, batch_size, m, n, k, matinfo, info, kinfo,
                 kinfo_set, nquery, qinfo, work_query, iwork_query, rwork_query,
                 nalloc, lwork, liwork, lrwork, tvars, svars>>

----
\* apply_reflect_conj_tri_single(self, n, stride, upper)
\* An element is a pair <<real part, imaginary part>>.

\* faulty variant: the element is copied without conjugation
conj_impl_copy(z) == z

\* conj_impl: the complex conjugate (the identity on a real element)
conj_impl(z) == <<z[1], 0 - z[2]>>

\* faulty variant: the inner loop of 'upper' starts on the diagonal
upper_first_col_on_diagonal(row) == row

\* faulty variant: the inner loop of 'upper' goes through the whole row
upper_first_col_zero(row) == 0

\* 'for (j = i + 1; j < n; j++)' and 'for (j = 0; j < i; j++)'
upper_first_col(row) == row + 1
first_col(up, row) == IF up THEN upper_first_col(row) ELSE 0
end_col(up, row, nn) == IF up THEN nn ELSE row

\* self[i * stride + j] = conj_impl(self[j * stride + i])
dst(row, col, st) == row * st + col
src(row, col, st) == col * st + row
assign(a, row, col, st) == [a EXCEPT ![dst(row, col, st)] = conj_impl(a[src(row, col, st)])]

\* the inner loop over j of one row, from column 'col' on
RECURSIVE inner_loop(_, _, _, _, _, _)
inner_loop(a, up, row, col, nn, st) ==
  IF col < end_col(up, row, nn)
    THEN inner_loop(assign(a, row, col, st), up, row, col + 1, nn, st)
    ELSE a

\* loop(start, end): the rows start .. end - 1, in order
RECURSIVE loop(_, _, _, _, _, _)
loop(a, up, start, end, nn, st) ==
  IF start < end
    THEN loop(inner_loop(a, up, start, first_col(up, start), nn, st), up, start + 1, end, nn, st)
    ELSE a

\* below this dimension the pass runs 'loop(0, n)' in the calling thread
SingleThreadBelow == 256

\* lda = std::max<int64_t>(1, n), the stride apply_cholesky_inverse passes
lda(nn) == StdMax(1, nn)

Vals == {<<1, 0>>, <<0, 1>>, <<0, 0 - 1>>}
Cells(nn, st) == 0..(nn * st - 1)

\* The pass on matrices of every content, one application per step.
TriInit ==
  /\ DriverInit /\ SegIdle
  /\ tn \in 0..MaxN /\ tstride = lda(tn) /\ tupper \in BOOLEAN
  /\ tself \in [Cells(tn, tstride) -> Vals]
  /\ torig = tself /\ tfirst = <<>> /\ tpass = 0
  /\ chunk = <<>> /\ wi = <<>> /\ wj = <<>> /\ wtmp = <<>> /\ wph = <<>>
  /\ readers = <<>> /\ writers = <<>>

apply_reflect_conj_tri_single ==
  /\ tpass < 2
  /\ tn < SingleThreadBelow
  /\ tself' = loop(tself, tupper, 0, tn, tn, tstride)
  /\ tfirst' = IF tpass = 0 THEN tself' ELSE tfirst
  /\ tpass' = tpass + 1
  /\ UNCHANGED <<svars, dvars, tn, tstride, tupper, torig, chunk, wi, wj, wtmp, wph, readers,
                 writers>>

TriNext == apply_reflect_conj_tri_single

SpecTri == TriInit /\ [][TriNext]_vars

\* The pass run by at::parallel_for(0, n, 0, loop): the rows are cut into
\* consecutive chunks and 'loop(start, end)' runs on each chunk in a worker of
\* its own. The source takes this path for n >= 256; the loop is the same for
\* every n, so the workers run here on small matrices. A worker reads an
\* element and stores its conjugate in two steps.

\* the ways to cut the rows [0, nn) into consecutive chunks
Cuts(nn) == SUBSET (1..(nn - 1))
KthSmallest(S, kth) == CHOOSE x \in S : Cardinality({y \in S : y < x}) = kth - 1
ChunksOf(nn, cuts) ==
  IF nn = 0 THEN <<>>
  ELSE [w \in 1..(Cardinality(cuts) + 1) |->
          [start |-> KthSmallest({0} \cup cuts, w), end |-> KthSmallest(cuts \cup {nn}, w)]]

\* the iteration of the nested loops at or after (row, col); row = end when
\* the loops are over
RECURSIVE seek(_, _, _, _, _)
seek(up, row, col, end, nn) ==
  IF row >= end THEN <<end, 0>>
  ELSE IF col < end_col(up, row, nn) THEN <<row, col>>
  ELSE seek(up, row + 1, first_col(up, row + 1), end, nn)

Workers == DOMAIN chunk

ParInit ==
  /\ DriverInit /\ SegIdle
  /\ tn \in 0..MaxNPar /\ tstride = lda(tn) /\ tupper \in BOOLEAN
  /\ tself = [p \in Cells(tn, tstride) |-> <<p, p + 1>>]
  /\ torig = tself /\ tfirst = <<>> /\ tpass = 0
  /\ \E cuts \in Cuts(tn) : chunk = ChunksOf(tn, cuts)
  /\ wi = [w \in Workers |->
             seek(tupper, chunk[w].start, first_col(tupper, chunk[w].start), chunk[w].end, tn)[1]]
  /\ wj = [w \in Workers |->
             seek(tupper, chunk[w].start, first_col(tupper, chunk[w].start), chunk[w].end, tn)[2]]
  /\ wph = [w \in Workers |-> IF wi[w] >= chunk[w].end THEN "done" ELSE "read"]
  /\ wtmp = [w \in Workers |-> <<0, 0>>]
  /\ readers = [p \in Cells(tn, tstride) |-> {}]
  /\ writers = [p \in Cells(tn, tstride) |-> {}]

\* worker w evaluates self[j * stride + i]
loop_read(w) ==
  /\ wph[w] = "read"
  /\ wtmp' = [wtmp EXCEPT ![w] = tself[src(wi[w], wj[w], tstride)]]
  /\ readers' = [readers EXCEPT ![src(wi[w], wj[w], tstride)] = @ \cup {w}]
  /\ wph' = [wph EXCEPT ![w] = "write"]
  /\ UNCHANGED <<svars, dvars, tself, tn, tstride, tupper, torig, tfirst, tpass, chunk, wi, wj,
                 writers>>

\* worker w stores the conjugate into self[i * stride + j] and steps its loops
loop_write(w) ==
  /\ wph[w] = "write"
  /\ tself' = [tself EXCEPT ![dst(wi[w], wj[w], tstride)] = conj_impl(wtmp[w])]
  /\ writers' = [writers EXCEPT ![dst(wi[w], wj[w], tstride)] = @ \cup {w}]
  /\ LET pos == seek(tupper, wi[w], wj[w] + 1, chunk[w].end, tn) IN
       /\ wi' = [wi EXCEPT ![w] = pos[1]]
       /\ wj' = [wj EXCEPT ![w] = pos[2]]
       /\ wph' = [wph EXCEPT ![w] = IF pos[1] >= chunk[w].end THEN "done" ELSE "read"]
  /\ UNCHANGED <<svars, dvars, tn, tstride, tupper, torig, tfirst, tpass, chunk, wtmp, readers>>

\* at::parallel_for returns when every chunk is done
parallel_for_join ==
  /\ tpass = 0
  /\ \A w \in Workers : wph[w] = "done"
  /\ tpass' = 1
  /\ tfirst' = tself
  /\ UNCHANGED <<svars, dvars, tself, tn, tstride, tupper, torig, chunk, wi, wj, wtmp, wph,
                 readers, writers>>

ParNext ==
  \/ \E w \in Workers : loop_read(w)
  \/ \E w \in Workers : loop_write(w)
  \/ parallel_for_join

SpecPar == ParInit /\ [][ParNext]_vars

----
\* segment_reduce_kernel and _segment_reduce_cpu_kernel (SegmentReduce.cpp)

\* int64_t, scaled to IntBits bits
Int64 == (0 - 2^(IntBits - 1))..(2^(IntBits - 1) - 1)

\* a + b in int64_t: the sum when it fits; signed overflow is undefined, and
\* any value may result (two's-complement wrap-around among them)
add(a, b) == IF a + b \in Int64 THEN {a + b} ELSE Int64

\* the elements of 'data': a NaN, or one of two numbers
SegVals == {[nan |-> TRUE, v |-> 0], [nan |-> FALSE, v |-> 0], [nan |-> FALSE, v |-> 1]}

\* the elements of 'lengths': a negative value, zero, or a positive int64_t
SegLengths == {l \in Int64 : l >= 0 - 1}

DataInputs == UNION {[1..l -> SegVals] : l \in 0..MaxData}

LengthInputs == UNION {[1..b -> SegLengths] : b \in 0..MaxSegments}

\* std::max<scalar_t>(a, b): b when a < b, else a (a comparison with NaN is false)
std_max(a, b) == IF ~a.nan /\ ~b.nan /\ a.v < b.v THEN b ELSE a

\* at::_isnan(data) ? data : std::max<scalar_t>(reduction, data)
reduce_step(red, d) == IF d.nan THEN d ELSE std_max(red, d)

\* segment_reduce_kernel: the argument checks, then the kernel up to its
\* first loop (output allocated, no slot stored)
segment_reduce_kernel ==
  /\ spc = "idle"
  /\ \E d \in DataInputs, l \in LengthInputs, u \in BOOLEAN :
       /\ sdata' = d /\ slengths' = l /\ sunsafe' = u
       /\ spc' = IF Len(d) = 0 THEN "raised"
                 ELSE IF u THEN "reduce" ELSE "check"
  /\ ssum' = 0 /\ si' = 0 /\ sj' = 0 /\ sk' = 0 /\ sreduction' = lowest
  /\ soutput' = <<>> /\ sreads' = <<>>
  /\ UNCHANGED <<dvars, tvars>>

\* one iteration of the length check: TORCH_CHECK(lengths_data[i] > 0), then
\* sum += lengths_data[i]
segment_check_length ==
  /\ spc = "check" /\ si < Len(slengths)
  /\ IF slengths[si + 1] > 0
       THEN /\ \E t \in add(ssum, slengths[si + 1]) : ssum' = t
            /\ si' = si + 1 /\ spc' = spc
       ELSE /\ spc' = "raised" /\ UNCHANGED <<ssum, si>>
  /\ UNCHANGED <<dvars, tvars, sdata, slengths, sunsafe, sj, sk, sreduction, soutput,
                 sreads>>

\* TORCH_CHECK(sum == data.numel()) after the length check
segment_check_sum ==
  /\ spc = "check" /\ si = Len(slengths)
  /\ IF ssum = Len(sdata)
       THEN spc' = "reduce" /\ si' = 0 /\ sj' = 0 /\ sk' = 0 /\ sreduction' = lowest
       ELSE spc' = "raised" /\ UNCHANGED <<si, sj, sk, sreduction>>
  /\ UNCHANGED <<dvars, tvars, sdata, slengths, sunsafe, ssum, soutput, sreads>>

\* one iteration of the inner loop: read values_data[k], fold it, k++.
\* A read outside 'data' is undefined; the run is not followed further.
segment_reduce_read ==
  /\ spc = "reduce" /\ si < Len(slengths) /\ sj < slengths[si + 1]
  /\ sreads' = Append(sreads, sk)
  /\ IF sk < Len(sdata)
       THEN /\ sreduction' = reduce_step(sreduction, sdata[sk + 1])
            /\ sk' = sk + 1 /\ sj' = sj + 1 /\ spc' = spc
       ELSE /\ spc' = "out_of_bounds" /\ UNCHANGED <<sreduction, sk, sj>>
  /\ UNCHANGED <<dvars, tvars, sdata, slengths, sunsafe, ssum, si, soutput>>

\* the end of segment i: output_data[i] = reduction, then the next segment
segment_reduce_store ==
  /\ spc = "reduce" /\ si < Len(slengths) /\ sj >= slengths[si + 1]
  /\ soutput' = Append(soutput, sreduction)
  /\ si' = si + 1 /\ sj' = 0 /\ sreduction' = lowest
  /\ UNCHANGED <<dvars, tvars, spc, sdata, slengths, sunsafe, ssum, sk, sreads>>

\* return output
segment_reduce_return ==
  /\ spc = "reduce" /\ si = Len(slengths)
  /\ spc' = "done"
  /\ UNCHANGED <<dvars, tvars, sdata, slengths, sunsafe, ssum, si, sj, sk, sreduction,
                 soutput, sreads>>

SegNext ==
  \/ segment_reduce_kernel \/ segment_check_length \/ segment_check_sum
  \/ segment_reduce_read \/ segment_reduce_store \/ segment_reduce_return

SegInit == DriverInit /\ TriIdle /\ SegIdle

SpecSeg == SegInit /\ [][SegNext]_vars

----
Next ==
  \/ cholesky_inverse_kernel_impl \/ apply_cholesky_inverse_loop
  \/ eig_kernel_impl \/ apply_eig_query \/ apply_eig_alloc \/ apply_eig_exec
  \/ eig_kernel_check
  \/ linalg_eig_kernel \/ apply_linalg_eig_query \/ apply_linalg_eig_alloc
  \/ apply_linalg_eig_loop
  \/ linalg_eigh_kernel \/ apply_lapack_eigh_query \/ apply_lapack_eigh_alloc
  \/ apply_lapack_eigh_loop
  \/ geqrf_kernel \/ apply_geqrf_query \/ apply_geqrf_alloc \/ apply_geqrf_loop
  \/ orgqr_kernel_impl \/ apply_orgqr_query \/ apply_orgqr_alloc \/ apply_orgqr_loop
  \/ triangular_solve_kernel \/ apply_triangular_solve_loop

Init == DriverInit /\ TriIdle /\ SegIdle

Spec == Init /\ [][Next]_vars

----
\* Vocabulary of the properties

BatchedOps == {"linalg_eig", "eigh", "geqrf", "orgqr", "cholesky_inverse",
               "triangular_solve"}
StatusVectorOps == {"cholesky_inverse", "linalg_eig", "eigh", "triangular_solve"}
EarlyExitOps == {"eigh", "triangular_solve"}
QueryIntoInfosOps == {"linalg_eig", "eigh"}
WorkspaceOps == {"linalg_eig", "eigh", "geqrf", "orgqr"}
SizingOps == {"eig", "linalg_eig", "eigh", "geqrf", "orgqr"}

Indices == 0..(batch_size - 1)
\* the matrices an execute call was made on
Processed == {execs[x].i : x \in 1..Len(execs)}
\* the matrices whose factorization fails
Failing == {j \in Indices : matinfo[j] # 0}
FirstFailing == CHOOSE j \in Failing : \A j2 \in Failing : j <= j2
\* number of matrices a loop that stops at the first failure goes through
UpToFirstFailure == IF Failing = {} THEN batch_size ELSE FirstFailing + 1
Floor(x2) == x2 \div 2

\* C1 (as claimed): a call of a batched operation whose batch size is 0 makes
\* no size-query call and does not raise.
C1_EmptyBatchMakesNoQuery ==
  (op \in BatchedOps /\ batch_size = 0) => (nquery = 0 /\ pc # "raised")

\* C2: in an operation with a status vector, the slot of every matrix an
\* execute call was made on holds the status that call returned; when the
\* call has returned, the processed matrices are all of the batch, or, with
\* early exit, those up to and including the first failing one.
C2_ProcessedSlotsHoldStatus ==
  op \in StatusVectorOps =>
    /\ \A x \in 1..Len(execs) : infos[execs[x].i] = execs[x].info
    /\ pc = "done" =>
         Processed = IF op \in EarlyExitOps THEN 0..(UpToFirstFailure - 1) ELSE Indices

C2_Witness ==
  /\ op = "linalg_eig" /\ pc = "done" /\ batch_size = 2
  /\ qinfo # 0 /\ infos[0] = 0 /\ infos[1] = 1

\* C3 (as claimed): none of the five kernel entry points raises after an
\* execute call returned a nonzero status.
C3_NoKernelRaisesOnMatrixFailure ==
  (op \in StatusVectorOps \cup {"eig"} /\ \E x \in 1..Len(execs) : execs[x].info # 0)
    => pc # "raised"

\* C3 (amended): the four kernels with a status vector never raise, a nonzero
\* status of a matrix is in its slot and the call goes on to return; eig_kernel_impl
\* raises exactly when the status of its matrix is not zero.
C3_OnlyEigRaisesOnMatrixFailure ==
  /\ op \in StatusVectorOps =>
       /\ pc \in {"idle", "query", "alloc", "loop", "done"}
       /\ \A x \in 1..Len(execs) :
            execs[x].info # 0 => infos[execs[x].i] = execs[x].info
  /\ (op = "eig" /\ execs # <<>> /\ pc \in {"done", "raised"}) =>
       (pc = "raised" <=> execs[1].info # 0)

C3_Witness ==
  /\ op = "cholesky_inverse" /\ pc = "done" /\ batch_size = 2
  /\ infos[0] = 1 /\ infos[1] = 0 - 1

\* C4 (as claimed): after a size query that reported a nonzero status the
\* call is aborted, so that no execute call is ever made on a matrix.
C4_FailedQueryAborts ==
  (op \in SizingOps /\ nquery > 0 /\ qinfo # 0) => execs = <<>>

\* C5: in apply_lapack_eigh and apply_triangular_solve the execute calls go
\* through the batch in order and stop with the first failing matrix; the
\* matrices and status slots after it are not touched by the loop.
C5_EarlyExitStopsTheBatch ==
  op \in EarlyExitOps =>
    /\ \A x \in 1..Len(execs) : execs[x].i = x - 1
    /\ Len(execs) <= UpToFirstFailure
    /\ pc = "done" => Len(execs) = UpToFirstFailure
    /\ \A j \in Indices :
         j >= UpToFirstFailure => (data[j] = <<>> /\ writes[j] = 0 /\ infos[j] = 0)

C5_Witness ==
  /\ op = "triangular_solve" /\ pc = "done" /\ batch_size = 2
  /\ matinfo[0] # 0 /\ matinfo[1] # 0 /\ Len(execs) = 1

\* C6 (as claimed): when a call on a non-empty batch has returned, every slot
\* of the status vector has been written once if its matrix was processed and
\* not at all otherwise.
C6_EachSlotWrittenOnce ==
  (op \in StatusVectorOps /\ batch_size > 0 /\ pc = "done") =>
    \A s \in Slots : writes[s] = IF s \in Processed THEN 1 ELSE 0

\* C6 (amended): the batch loop writes the slot of every processed matrix once
\* and no other slot; in apply_linalg_eig and apply_lapack_eigh the size query
\* has written slot 0 once more, before the loop, whatever the batch size.
C6_SlotWritesOfLoopAndQuery ==
  op \in StatusVectorOps =>
    \A s \in Slots :
      writes[s] = (IF s \in Processed THEN 1 ELSE 0)
                  + (IF s = 0 /\ op \in QueryIntoInfosOps /\ nquery > 0 THEN 1 ELSE 0)

C6_Witness ==
  /\ op = "eigh" /\ pc = "done" /\ batch_size = 2
  /\ writes[0] = 2 /\ writes[1] = 1

\* C7 (as claimed): when a call of a workspace operation on a non-empty batch
\* has returned, one size query was made and the workspace was allocated once;
\* the query comes before the allocation and before every execute call, and
\* every execute call is handed that workspace and the same sizes.
C7_OneQueryPerBatch ==
  (op \in WorkspaceOps /\ batch_size > 0) =>
    /\ nquery <= 1 /\ nalloc <= nquery
    /\ \A x \in 1..Len(execs) :
         /\ nalloc = 1 /\ execs[x].ws = 1
         /\ execs[x].lwork = lwork /\ execs[x].liwork = liwork
         /\ execs[x].lrwork = lrwork
    /\ pc = "done" => (nquery = 1 /\ nalloc = 1)

\* C7 (amended): the same, for a call of apply_orgqr only when the input has
\* elements: on a batch of matrices without elements apply_orgqr returns at
\* once, with no size query and no workspace.
C7_OneQueryPerBatchWithElements ==
  (op \in WorkspaceOps /\ batch_size > 0 /\ (op = "orgqr" => numel(batch_size, m, n) # 0)) =>
    /\ nquery <= 1 /\ nalloc <= nquery
    /\ \A x \in 1..Len(execs) :
         /\ nalloc = 1 /\ execs[x].ws = 1
         /\ execs[x].lwork = lwork /\ execs[x].liwork = liwork
         /\ execs[x].lrwork = lrwork
    /\ pc = "done" => (nquery = 1 /\ nalloc = 1)

C7_Witness ==
  /\ op = "orgqr" /\ pc = "done" /\ batch_size = 2 /\ Len(execs) = 2
  /\ nquery = 1 /\ nalloc = 1

\* C8 (as claimed): every execute call of a sizing operation is handed
\* max(1, floor(real part of the hint)) as the size of each workspace that is
\* sized: the primary one, the integer one and, for a complex type, the real one.
C8_SizeIsMaxOneFloorHint ==
  op \in SizingOps =>
    \A x \in 1..Len(execs) :
      /\ execs[x].lwork = StdMax(1, Floor(work_query.re2))
      /\ op = "eigh" => execs[x].liwork = StdMax(1, iwork_query)
      /\ (op = "eigh" /\ is_complex) => execs[x].lrwork = StdMax(1, Floor(rwork_query))

\* C8 (amended): so it is in apply_eig, apply_linalg_eig, apply_lapack_eigh and
\* apply_orgqr; apply_geqrf hands max(1, n, floor(real part of the hint)), with
\* n the number of columns.
C8_SizeIsMaxOneFloorHintOrColumns ==
  op \in SizingOps =>
    \A x \in 1..Len(execs) :
      /\ execs[x].lwork = IF op = "geqrf"
                            THEN StdMax(StdMax(1, n), Floor(work_query.re2))
                            ELSE StdMax(1, Floor(work_query.re2))
      /\ op = "eigh" => execs[x].liwork = StdMax(1, iwork_query)
      /\ (op = "eigh" /\ is_complex) => execs[x].lrwork = StdMax(1, Floor(rwork_query))

C8_Witness ==
  /\ op = "eigh" /\ is_complex /\ Len(execs) = 2
  /\ work_query.re2 = 0 - 1 /\ rwork_query = 0 - 1 /\ iwork_query = 3
  /\ execs[2].lwork = 1 /\ execs[2].lrwork = 1 /\ execs[2].liwork = 3

\* C9: apply_reflect_conj_tri_single is idempotent: after the second
\* application with the same arguments the matrix is what it was after the
\* first one.
C9_ReflectIsIdempotent ==
  tpass = 2 => tself = tfirst

C9_Witness ==
  /\ tpass = 2 /\ tn = 2 /\ tupper
  /\ tself # torig /\ torig[src(0, 1, tstride)] = <<0, 1>>

\* C10: whatever the chunks and the interleaving of the workers' reads and
\* writes, the matrix the workers leave is the one 'loop(0, n)' produces in one
\* thread, and no element written by a worker is read or written by another.
C10_ThreadingDoesNotChangeResult ==
  /\ tpass = 1 => tself = loop(torig, tupper, 0, tn, tn, tstride)
  /\ \A p \in DOMAIN writers :
       \A w \in writers[p] : (readers[p] \cup writers[p]) \subseteq {w}

C10_Witness ==
  /\ tpass = 1 /\ tn = 4 /\ Cardinality(Workers) = 4
  /\ tself # torig

\* C11: apply_orgqr on an input without elements returns at once: no size
\* query, no execute call, no workspace, and no matrix of 'self' is written
\* (apply_orgqr never writes 'tau').
C11_OrgqrEmptyInputReturnsAtOnce ==
  (op = "orgqr" /\ batch_size * m * n = 0) =>
    /\ pc = "done"
    /\ nquery = 0 /\ nalloc = 0 /\ execs = <<>>
    /\ \A j \in DOMAIN data : data[j] = <<>>

C11_Witness ==
  /\ op = "orgqr" /\ pc = "done" /\ batch_size = 1 /\ m = 0 /\ n = 0

\* C12: after the pass every off-diagonal pair is conjugate,
\* self[i*stride+j] = conj(self[j*stride+i]); only the elements i*stride+j with
\* j > i (upper) or j < i (lower) may differ from what they were before the
\* pass, the diagonal and the opposite half are as they were.
C12_ReflectMirrorsOneHalf ==
  tpass >= 1 =>
    /\ \A r \in 0..(tn - 1), c \in 0..(tn - 1) :
         r # c => tself[r * tstride + c] = <<tself[c * tstride + r][1],
                                             0 - tself[c * tstride + r][2]>>
    /\ \A r \in 0..(tn - 1), c \in 0..(tn - 1) :
         ~(IF tupper THEN c > r ELSE c < r) =>
            tself[r * tstride + c] = torig[r * tstride + c]

C12_Witness ==
  /\ tpass = 1 /\ tn = 2 /\ ~tupper
  /\ torig[1] = <<0, 1>> /\ torig[2] = <<1, 0>> /\ tself[2] = <<0, 0 - 1>>

\* C13 (as claimed): when eig_kernel_impl has handed its status to
\* singleCheckErrors, apply_eig had assigned that status during the call.
C13_EigStatusAssignedBeforeRead ==
  (op = "eig" /\ pc \in {"done", "raised"}) => kinfo_set

\* C14 (as claimed): every store to the status vector goes to a slot in
\* [0, batch_size), and every execute call is handed the sub-buffer of an
\* index in [0, batch_size), at offset i * stride, the sub-buffers of
\* different execute calls not overlapping.
C14_AccessesStayInsideTheBatch ==
  op \in BatchedOps =>
    /\ \A s \in Slots : writes[s] > 0 => s \in Indices
    /\ \A x \in 1..Len(execs) : execs[x].i \in Indices
    /\ \A x, y \in 1..Len(execs) :
         x # y =>
           LET sx == working_ptr(execs[x].i, m * n)
               sy == working_ptr(execs[y].i, m * n)
           IN sx + m * n <= sy \/ sy + m * n <= sx

\* the sum of the first cnt elements of l
RECURSIVE SumOfFirst(_, _)
SumOfFirst(l, cnt) == IF cnt = 0 THEN 0 ELSE SumOfFirst(l, cnt - 1) + l[cnt]

\* C15 (as claimed): a call with unsafe = false either raises before any
\* output slot is stored, or reads the elements of data once each and in order:
\* every read index is below data.numel(), segment i starts where the lengths
\* before it end, and k = data.numel() when the kernel returns.
C15_CheckedCallReadsDataOnceInOrder ==
  (spc # "idle" /\ ~sunsafe) =>
    /\ spc = "raised" => soutput = <<>>
    /\ \A x \in 1..Len(sreads) : sreads[x] = x - 1 /\ sreads[x] < Len(sdata)
    /\ (spc = "reduce" /\ si < Len(slengths) /\ sj = 0) =>
          sk = SumOfFirst(slengths, si)
    /\ spc = "done" => sk = Len(sdata) /\ Len(sreads) = Len(sdata)

====
